---- MODULE Spec2Model ----
(***************************************************************************)
(* Timeline / caption synchronisation engine of the reel generator.        *)
(*                                                                         *)
(* Times are integers counting milliseconds (0.5 s = 500).  A text is a    *)
(* sequence of one-character strings.  Python's round(x, 2) is RoundCs:    *)
(* the nearest multiple of 10 ms, ties to the even multiple.  A quotient   *)
(* the code computes in floating point (the per-word base duration) is     *)
(* kept exact by carrying the running cursor as a numerator over the       *)
(* word count.                                                             *)
(* A value exactly half way between two multiples of 10 ms is rounded by   *)
(* the code according to its binary floating-point representation; the     *)
(* inputs below are chosen so that no such value arises.                   *)
(***************************************************************************)
EXTENDS Integers, Sequences, FiniteSets, TLC

VARIABLES
    pc,          \* which entry point this run exercises, and how far it got
    request,     \* arguments of the create_speaker_timeline_with_timing_data call
    timeline,    \* the list that call returned
    results,     \* what successive enhance_timeline_with_captions calls returned
    processor,   \* settings of a locally constructed CaptionProcessor
    call,        \* arguments of the direct processor call (estimate / chunks)
    output,      \* the list the direct processor call returned
    render,      \* progress and files of a create_video_with_overlays_and_captions call
    synthesis,   \* what the synthesis calls of a voiceover returned, per parsed segment
    async_processor  \* the AsyncVideoProcessor instance, its callers and its threads

vars ==
    <<pc, request, timeline, results, processor, call, output, render, synthesis,
      async_processor>>

----------------------------------------------------------------------------
(* Bounds of the model *)

MaxSegs == 2

MaxCalls == 2

MaxChunkWords == 3

MaxSentences == 17

MaxJobs == 3

----------------------------------------------------------------------------
(* Generic helpers *)

Max(a, b) == IF a >= b THEN a ELSE b

Min(a, b) == IF a <= b THEN a ELSE b

Range(s) == {s[i] : i \in DOMAIN s}

Last(s) == s[Len(s)]

Rep(c, n) == [i \in 1..n |-> c]

SetMin(S) == CHOOSE x \in S : \A y \in S : x <= y

SetMax(S) == CHOOSE x \in S : \A y \in S : x >= y

\* The k-th smallest element of a set of integers
Nth(S, k) == CHOOSE x \in S : Cardinality({y \in S : y <= x}) = k

RECURSIVE Concat(_)
Concat(ss) == IF ss = <<>> THEN <<>> ELSE Head(ss) \o Concat(Tail(ss))

AllSeqs(S, n) == UNION {[1..k -> S] : k \in 0..n}

NonEmptySeqs(S, n) == UNION {[1..k -> S] : k \in 1..n}

----------------------------------------------------------------------------
(* Text: str.isspace, re.findall(r'\S+', text), str.split(), " ".join *)

Whitespace == {" ", "\n"}

IsSpace(c) == c \in Whitespace

\* Both re.findall(r'\S+', text) and text.split(): the maximal runs of
\* characters that are not whitespace, in text order.
WordStarts(text) ==
    {i \in DOMAIN text : ~IsSpace(text[i]) /\ (i = 1 \/ IsSpace(text[i - 1]))}

RunEnd(text, i) ==
    SetMin({j \in i..Len(text) : j = Len(text) \/ IsSpace(text[j + 1])})

Words(text) ==
    LET starts == WordStarts(text)
    IN  [k \in 1..Cardinality(starts) |->
            SubSeq(text, Nth(starts, k), RunEnd(text, Nth(starts, k)))]

WordCount(text) == Len(Words(text))

RECURSIVE JoinWords(_)
JoinWords(ws) ==
    IF ws = <<>> THEN <<>>
    ELSE IF Len(ws) = 1 THEN ws[1]
    ELSE ws[1] \o <<" ">> \o JoinWords(Tail(ws))

----------------------------------------------------------------------------
(* round(x, 2) on a time x = num / den milliseconds, den > 0, num >= 0 *)

RoundHalfEven(num, den) ==
    LET q == num \div den
        r == num % den
    IN  IF 2 * r < den THEN q
        ELSE IF 2 * r > den THEN q + 1
        ELSE IF q % 2 = 0 THEN q ELSE q + 1

RoundCs(num, den) == 10 * RoundHalfEven(num, 10 * den)

----------------------------------------------------------------------------
(* Text helpers of the script parser: str.strip, str.lower, str.split('\n\n'),
   re.split(r'[.!?]+', text) *)

RECURSIVE LStrip(_)
LStrip(s) == IF s # <<>> /\ IsSpace(Head(s)) THEN LStrip(Tail(s)) ELSE s

RECURSIVE RStrip(_)
RStrip(s) ==
    IF s # <<>> /\ IsSpace(s[Len(s)]) THEN RStrip(SubSeq(s, 1, Len(s) - 1)) ELSE s

Strip(s) == RStrip(LStrip(s))

UpperCase ==
    <<"A", "B", "C", "D", "E", "F", "G", "H", "I", "J", "K", "L", "M",
      "N", "O", "P", "Q", "R", "S", "T", "U", "V", "W", "X", "Y", "Z">>

LowerCase ==
    <<"a", "b", "c", "d", "e", "f", "g", "h", "i", "j", "k", "l", "m",
      "n", "o", "p", "q", "r", "s", "t", "u", "v", "w", "x", "y", "z">>

LowerChar(c) ==
    IF \E i \in DOMAIN UpperCase : UpperCase[i] = c
    THEN LowerCase[CHOOSE i \in DOMAIN UpperCase : UpperCase[i] = c]
    ELSE c

Lower(s) == [i \in DOMAIN s |-> LowerChar(s[i])]

\* The pieces of s around separators: starts holds the first index of every
\* separator, sepEnd[i] is the last index of the separator starting at i.
PiecesAround(s, starts, sepEnd) ==
    LET n == Cardinality(starts)
    IN  [k \in 1..(n + 1) |->
            SubSeq(s,
                   IF k = 1 THEN 1 ELSE sepEnd[Nth(starts, k - 1)] + 1,
                   IF k = n + 1 THEN Len(s) ELSE Nth(starts, k) - 1)]

\* script_text.split('\n\n'): the separators are taken left to right without
\* overlap, so within a run of newlines they start at every second one.
NewlineRunStart(s, i) ==
    SetMax({j \in 1..i : s[j] = "\n" /\ (j = 1 \/ s[j - 1] # "\n")})

ParagraphBreaks(s) ==
    {i \in 1..(Len(s) - 1) :
        /\ s[i] = "\n"
        /\ s[i + 1] = "\n"
        /\ (i - NewlineRunStart(s, i)) % 2 = 0}

SplitParagraphs(s) ==
    PiecesAround(s, ParagraphBreaks(s), [i \in ParagraphBreaks(s) |-> i + 1])

SentenceEnd == {".", "!", "?"}

\* re.split(r'[.!?]+', script_text): a maximal run of sentence punctuation is
\* one separator.
SentenceBreaks(s) ==
    {i \in DOMAIN s : s[i] \in SentenceEnd /\ (i = 1 \/ s[i - 1] \notin SentenceEnd)}

SplitSentences(s) ==
    PiecesAround(s, SentenceBreaks(s),
                 [i \in SentenceBreaks(s) |->
                     SetMin({j \in i..Len(s) : j = Len(s) \/ s[j + 1] \notin SentenceEnd})])

\* [p.strip() for p in pieces if p.strip()]
RECURSIVE StripNonEmpty(_)
StripNonEmpty(pieces) ==
    IF pieces = <<>> THEN <<>>
    ELSE IF Strip(Head(pieces)) = <<>>
         THEN StripNonEmpty(Tail(pieces))
         ELSE <<Strip(Head(pieces))>> \o StripNonEmpty(Tail(pieces))

----------------------------------------------------------------------------
(* Speakers.  A speaker name is a text, like every other string of the
   program, so that a name read from the script and a built-in persona key
   are values of one kind. *)

elon == <<"e", "l", "o", "n">>

trump == <<"t", "r", "u", "m", "p">>

baburao == <<"b", "a", "b", "u", "r", "a", "o">>

samay == <<"s", "a", "m", "a", "y">>

arpit == <<"a", "r", "p", "i", "t">>

modi == <<"m", "o", "d", "i">>

mrbeast == <<"m", "r", "b", "e", "a", "s", "t">>

trump_elon == <<"t", "r", "u", "m", "p", "_", "e", "l", "o", "n">>

baburao_samay == <<"b", "a", "b", "u", "r", "a", "o", "_", "s", "a", "m", "a", "y">>

samay_arpit == <<"s", "a", "m", "a", "y", "_", "a", "r", "p", "i", "t">>

trump_mrbeast == <<"t", "r", "u", "m", "p", "_", "m", "r", "b", "e", "a", "s", "t">>

SPEAKER_PAIRS ==
    [p \in {trump_elon, baburao_samay, samay_arpit, trump_mrbeast} |->
        CASE p = trump_elon -> <<elon, trump>>
          [] p = baburao_samay -> <<baburao, samay>>
          [] p = samay_arpit -> <<samay, arpit>>
          [] p = trump_mrbeast -> <<trump, mrbeast>>]

----------------------------------------------------------------------------
(* parse_conversational_script *)

\* First index >= from at which s holds a '*', or Len(s) + 1 when there is none
NextStar(s, from) ==
    LET stars == {i \in from..Len(s) : s[i] = "*"}
    IN  IF stars = {} THEN Len(s) + 1 ELSE SetMin(stars)

\* The marker part of speaker_pattern, \*\*([^*]+):\*\*, matched at index p.
\* [^*]+ runs up to the next '*', so the ':' is the character before it.
MarkerAt(s, p) ==
    LET q == NextStar(s, p + 2)
    IN  /\ p + 1 <= Len(s)
        /\ s[p] = "*"
        /\ s[p + 1] = "*"
        /\ q + 1 <= Len(s)
        /\ q - 1 >= p + 3
        /\ s[q - 1] = ":"
        /\ s[q + 1] = "*"

MarkerName(s, p) == SubSeq(s, p + 2, NextStar(s, p + 2) - 2)

MarkerEnd(s, p) == NextStar(s, p + 2) + 2

\* Number of whitespace characters \s* takes from index m on, below index t
RECURSIVE SpaceRun(_, _, _)
SpaceRun(s, m, t) ==
    IF m < t /\ IsSpace(s[m]) THEN 1 + SpaceRun(s, m + 1, t) ELSE 0

\* The whole speaker_pattern at index p: the marker, \s*, then ([^*]+?) up to
\* the lookahead (?=\*\*[^*]+:\*\*|\Z).  The text holds no '*', so it ends at
\* the next '*' (which must open a marker) or at the end of the script; \s*
\* gives back one character when the span is all whitespace.
PatternAt(s, p) ==
    /\ MarkerAt(s, p)
    /\ LET m == MarkerEnd(s, p)
           t == NextStar(s, m)
       IN  /\ t > m
           /\ (t = Len(s) + 1 \/ MarkerAt(s, t))

PatternText(s, p) ==
    LET m == MarkerEnd(s, p)
        t == NextStar(s, m)
        w == SpaceRun(s, m, t)
    IN  IF m + w < t THEN SubSeq(s, m + w, t - 1) ELSE SubSeq(s, t - 1, t - 1)

\* re.findall(speaker_pattern, script_text, re.DOTALL), scanning from index p:
\* the leftmost match, then the matches behind it
RECURSIVE FindExplicit(_, _)
FindExplicit(s, p) ==
    LET matches == {i \in p..Len(s) : PatternAt(s, i)}
    IN  IF matches = {} THEN <<>>
        ELSE LET q == SetMin(matches)
             IN  <<[name |-> MarkerName(s, q), text |-> PatternText(s, q)]>>
                 \o FindExplicit(s, NextStar(s, MarkerEnd(s, q)))

RECURSIVE ExplicitSegments(_)
ExplicitSegments(found) ==
    IF found = <<>> THEN <<>>
    ELSE LET speaker_name == Strip(Lower(Head(found).name))
             text == Strip(Head(found).text)
         IN  (IF text # <<>> THEN <<[speaker |-> speaker_name, text |-> text]>> ELSE <<>>)
             \o ExplicitSegments(Tail(found))

target_segments == 6

MinSegmentChars == 50

MaxSpeakerSegments == 8

PairSpeakers(speaker_pair) ==
    IF speaker_pair \in DOMAIN SPEAKER_PAIRS
    THEN SPEAKER_PAIRS[speaker_pair]
    ELSE <<elon, trump>>

SegmentsPerChunk(segments) ==
    IF Len(segments) > target_segments * 2
    THEN Max(1, Len(segments) \div target_segments)
    ELSE 1

NextSpeaker(pair_speakers, current_speaker) ==
    LET current_index == CHOOSE k \in DOMAIN pair_speakers :
                            /\ pair_speakers[k] = current_speaker
                            /\ \A j \in 1..(k - 1) : pair_speakers[j] # current_speaker
    IN  pair_speakers[(current_index % Len(pair_speakers)) + 1]

\* The alternation loop; i is the 1-based position of the piece being added
RECURSIVE Alternate(_, _, _, _, _, _, _)
Alternate(segments, i, per_chunk, pair_speakers, current_speaker, current_segment, speakers) ==
    IF i > Len(segments) THEN speakers
    ELSE LET grown == current_segment \o segments[i] \o <<" ">>
             emit == \/ (Len(Strip(grown)) > MinSegmentChars /\ i % per_chunk = 0)
                     \/ i = Len(segments)
         IN  IF emit /\ Strip(grown) # <<>>
             THEN Alternate(segments, i + 1, per_chunk, pair_speakers,
                            NextSpeaker(pair_speakers, current_speaker), <<>>,
                            Append(speakers, [speaker |-> current_speaker,
                                              text |-> Strip(grown)]))
             ELSE Alternate(segments, i + 1, per_chunk, pair_speakers,
                            current_speaker, grown, speakers)

RECURSIVE CombinePairs(_)
CombinePairs(speakers) ==
    IF speakers = <<>> THEN <<>>
    ELSE IF Len(speakers) = 1 THEN speakers
    ELSE <<[speaker |-> speakers[1].speaker,
            text |-> speakers[1].text \o <<" ">> \o speakers[2].text]>>
         \o CombinePairs(SubSeq(speakers, 3, Len(speakers)))

SplitScript(script_text) ==
    LET paragraphs == StripNonEmpty(SplitParagraphs(script_text))
    IN  IF Len(paragraphs) >= 2
        THEN paragraphs
        ELSE StripNonEmpty(SplitSentences(script_text))

AutoAlternate_unmerged(script_text, speaker_pair) ==
    LET segments == SplitScript(script_text)
        pair_speakers == PairSpeakers(speaker_pair)
    IN  Alternate(segments, 1, SegmentsPerChunk(segments), pair_speakers,
                  pair_speakers[1], <<>>, <<>>)

AutoAlternate(script_text, speaker_pair) ==
    LET segments == SplitScript(script_text)
        pair_speakers == PairSpeakers(speaker_pair)
        speakers == Alternate(segments, 1, SegmentsPerChunk(segments), pair_speakers,
                              pair_speakers[1], <<>>, <<>>)
    IN  IF Len(speakers) > MaxSpeakerSegments THEN CombinePairs(speakers) ELSE speakers

parse_conversational_script(script_text, speaker_pair) ==
    LET explicit_speakers == FindExplicit(script_text, 1)
    IN  IF explicit_speakers # <<>>
        THEN ExplicitSegments(explicit_speakers)
        ELSE AutoAlternate(script_text, speaker_pair)

----------------------------------------------------------------------------
(* Alignment data of one synthesised segment.  isNone stands for Python's
   None; otherwise the value is a dict holding the arrays named in keys
   (dict.get of an absent key gives the empty list). *)

CharsKey == "characters"

StartsKey == "character_start_times_seconds"

EndsKey == "character_end_times_seconds"

NoneAlignment ==
    [isNone |-> TRUE, keys |-> {}, characters |-> <<>>,
     character_start_times_seconds |-> <<>>, character_end_times_seconds |-> <<>>]

MkAlignment(keys, characters, starts, ends) ==
    [isNone |-> FALSE, keys |-> keys, characters |-> characters,
     character_start_times_seconds |-> starts, character_end_times_seconds |-> ends]

Get(alignment, key) == IF key \in alignment.keys THEN alignment[key] ELSE <<>>

----------------------------------------------------------------------------
(* conversational_tts.py: the timeline builder *)

PerWordMs == 500

MinSegmentMs == 1000

PauseMs == 200

\* max(word_count * 0.5, 1.0)
EstimatedDuration(text) == Max(WordCount(text) * PerWordMs, MinSegmentMs)

calculate_duration_from_documented_format(alignment, text) ==
    IF alignment.keys = {}
    THEN WordCount(text) * PerWordMs
    ELSE IF EndsKey \in alignment.keys /\ alignment[EndsKey] # <<>>
         THEN Last(alignment[EndsKey])
         ELSE WordCount(text) * PerWordMs

SegmentDuration(item) ==
    IF ~item.timing_data.isNone
    THEN calculate_duration_from_documented_format(item.timing_data, item.text)
    ELSE EstimatedDuration(item.text)

AdvanceTime_duration_dropped(current_time, duration) == current_time + PauseMs

\* current_time += duration + 0.2
AdvanceTime(current_time, duration) == current_time + duration + PauseMs

\* The loop over timing_data (lines 750-772); items is what is left of it
RECURSIVE TimelineFromTimingData(_, _)
TimelineFromTimingData(items, current_time) ==
    IF items = <<>> THEN <<>>
    ELSE LET item == Head(items)
             duration == SegmentDuration(item)
         IN  <<[speaker |-> item.speaker,
                start_time |-> current_time,
                end_time |-> current_time + duration,
                text |-> item.text,
                real_timing_data |-> item.timing_data]>>
             \o TimelineFromTimingData(Tail(items), AdvanceTime(current_time, duration))

\* The fallback loop over the parsed script (lines 727-747)
RECURSIVE TimelineFromScript(_, _)
TimelineFromScript(speaker_segments, current_time) ==
    IF speaker_segments = <<>> THEN <<>>
    ELSE LET seg == Head(speaker_segments)
             estimated_duration == EstimatedDuration(seg.text)
         IN  <<[speaker |-> seg.speaker,
                start_time |-> current_time,
                end_time |-> current_time + estimated_duration,
                text |-> seg.text,
                real_timing_data |-> NoneAlignment]>>
             \o TimelineFromScript(Tail(speaker_segments),
                                   AdvanceTime(current_time, estimated_duration))

create_speaker_timeline_with_timing_data(script_text, speaker_pair, timing_data) ==
    IF timing_data = <<>>
    THEN TimelineFromScript(parse_conversational_script(script_text, speaker_pair), 0)
    ELSE TimelineFromTimingData(timing_data, 0)

----------------------------------------------------------------------------
(* captions/caption_processor.py: CaptionProcessor *)

CaptionProcessor ==
    [max_chars_per_line |-> 50,
     max_duration_per_caption |-> 4000,
     min_duration_per_caption |-> 1000,
     words_per_second |-> 2]

MinWordMs == 100

LongWordChars == 4

ExtraCharMs == 50

DefaultWordMs == 500

PerCharMs == 100

ClippedWordEnd_unclipped(cur, word_duration, end_num) == cur + word_duration

\* word_end = min(current_time + word_duration, end_time), all over n
ClippedWordEnd(cur, word_duration, end_num) == Min(cur + word_duration, end_num)

\* The loop of estimate_word_timing.  The cursor is cur / n milliseconds, n the
\* word count; base / n is 1.0 / words_per_second.
RECURSIVE EstimateLoop(_, _, _, _, _)
EstimateLoop(words, n, base, cur, end_time) ==
    IF words = <<>> THEN <<>>
    ELSE LET word == Head(words)
             char_count == Len(word)
             duration_adjustment ==
                 IF char_count > LongWordChars
                 THEN (char_count - LongWordChars) * ExtraCharMs
                 ELSE 0
             word_duration == Max(MinWordMs * n, base + duration_adjustment * n)
             word_end == ClippedWordEnd(cur, word_duration, end_time * n)
         IN  <<[word |-> word, start |-> RoundCs(cur, n), end |-> RoundCs(word_end, n)]>>
             \o EstimateLoop(Tail(words), n, base, word_end, end_time)

estimate_word_timing(text, start_time, end_time) ==
    LET words == Words(text)
        n == Len(words)
        total_duration == end_time - start_time
        base == IF total_duration > 0 THEN total_duration ELSE DefaultWordMs * n
    IN  IF words = <<>> THEN <<>>
        ELSE EstimateLoop(words, n, base, start_time * n, end_time)

\* The fallback of the precise resolver: the estimate over len(text) * 0.1 s
FallbackEnd(text, segment_start_time) == segment_start_time + Len(text) * PerCharMs

\* The two while loops for one word: the index after the word's characters,
\* then the index after the whitespace that follows them.
WordStop(word, characters, char_index) == Min(char_index + Len(word), Len(characters) + 1)

RECURSIVE SkipSpaces(_, _)
SkipSpaces(characters, char_index) ==
    IF char_index <= Len(characters) /\ IsSpace(characters[char_index])
    THEN SkipSpaces(characters, char_index + 1)
    ELSE char_index

\* The for loop of the precise resolver (lines 113-150), char_index 1-based
RECURSIVE PreciseLoop(_, _, _, _, _, _)
PreciseLoop(words, segment_start_time, characters, start_times, end_times, char_index) ==
    IF words = <<>> THEN <<>>
    ELSE LET word == Head(words)
             stop == WordStop(word, characters, char_index)
             rest == PreciseLoop(Tail(words), segment_start_time, characters,
                                 start_times, end_times, SkipSpaces(characters, stop))
         IN  IF stop > char_index
             THEN <<[word |-> word,
                     start |-> RoundCs(segment_start_time + start_times[char_index], 1),
                     end |-> RoundCs(segment_start_time + end_times[stop - 1], 1)]>> \o rest
             ELSE rest

_extract_word_timing_from_elevenlabs(text, segment_start_time, timing_data) ==
    LET characters == Get(timing_data, CharsKey)
        start_times == Get(timing_data, StartsKey)
        end_times == Get(timing_data, EndsKey)
        fallback == estimate_word_timing(text, segment_start_time,
                                         FallbackEnd(text, segment_start_time))
    IN  IF timing_data.isNone THEN fallback
        ELSE IF characters = <<>> \/ start_times = <<>> \/ end_times = <<>> THEN fallback
        ELSE IF Len(characters) # Len(start_times) \/ Len(characters) # Len(end_times)
             THEN fallback
        ELSE PreciseLoop(Words(text), segment_start_time, characters,
                         start_times, end_times, 1)

WordLength_space_uncounted(word, current_chunk_words) == Len(word)

\* len(word) + (1 if current_chunk_words else 0)
WordLength(word, current_chunk_words) ==
    Len(word) + (IF current_chunk_words # <<>> THEN 1 ELSE 0)

\* current_chunk_words = [word]: the word that closed a chunk opens the next
StartChunk_word_dropped(word) == <<>>

StartChunk(word) == <<word>>

\* One pass of the for loop of create_caption_chunks (lines 179-213), i 1-based
RECURSIVE ChunkLoop(_, _, _, _, _, _, _, _)
ChunkLoop(self, word_timings, i, speaker, caption_chunks, current_chunk_words, current_chunk_chars, chunk_start_time) ==
    IF i > Len(word_timings)
    THEN [caption_chunks |-> caption_chunks,
          current_chunk_words |-> current_chunk_words,
          chunk_start_time |-> chunk_start_time]
    ELSE LET word == word_timings[i].word
             word_start == word_timings[i].start
             word_end == word_timings[i].end
             word_length == WordLength(word, current_chunk_words)
             close ==
                 \/ (current_chunk_chars + word_length > self.max_chars_per_line
                     /\ current_chunk_words # <<>>)
                 \/ (word_end - chunk_start_time > self.max_duration_per_caption
                     /\ current_chunk_words # <<>>)
         IN  IF close
             THEN ChunkLoop(self, word_timings, i + 1, speaker,
                            Append(caption_chunks,
                                   [text |-> JoinWords(current_chunk_words),
                                    start |-> chunk_start_time,
                                    end |-> word_timings[i - 1].end,
                                    speaker |-> speaker]),
                            StartChunk(word), Len(word), word_start)
             ELSE ChunkLoop(self, word_timings, i + 1, speaker, caption_chunks,
                            Append(current_chunk_words, word),
                            current_chunk_chars + word_length, chunk_start_time)

create_caption_chunks(self, text, start_time, end_time, speaker, word_timings) ==
    IF word_timings = <<>> THEN <<>>
    ELSE LET left == ChunkLoop(self, word_timings, 1, speaker, <<>>, <<>>, 0, start_time)
         IN  IF left.current_chunk_words # <<>>
             THEN Append(left.caption_chunks,
                         [text |-> JoinWords(left.current_chunk_words),
                          start |-> left.chunk_start_time,
                          end |-> end_time,
                          speaker |-> speaker])
             ELSE left.caption_chunks

\* all_captions.sort(key=lambda x: x["start"]): a stable sort, modelled as the
\* insertion of each caption behind every caption that does not start later.
RECURSIVE InsertByStart_before_equal(_, _)
InsertByStart_before_equal(sorted, caption) ==
    IF sorted = <<>> THEN <<caption>>
    ELSE IF Head(sorted).start < caption.start
         THEN <<Head(sorted)>> \o InsertByStart_before_equal(Tail(sorted), caption)
         ELSE <<caption>> \o sorted

RECURSIVE InsertByStart(_, _)
InsertByStart(sorted, caption) ==
    IF sorted = <<>> THEN <<caption>>
    ELSE IF Head(sorted).start <= caption.start
         THEN <<Head(sorted)>> \o InsertByStart(Tail(sorted), caption)
         ELSE <<caption>> \o sorted

RECURSIVE SortInto(_, _)
SortInto(sorted, captions) ==
    IF captions = <<>> THEN sorted
    ELSE SortInto(InsertByStart(sorted, Head(captions)), Tail(captions))

SortByStart(captions) == SortInto(<<>>, captions)

StatSpeakers == {elon, trump, baburao, samay, arpit, modi, mrbeast}

\* The dict literal of lines 260-268, built afresh by every call
NewSpeakerStats == [sp \in StatSpeakers |-> [duration |-> 0, words |-> 0]]

EnhanceSegment(self, segment) ==
    LET word_timings == _extract_word_timing_from_elevenlabs(
                            segment.text, segment.start_time, segment.real_timing_data)
        caption_chunks == create_caption_chunks(self, segment.text, segment.start_time,
                                                segment.end_time, segment.speaker,
                                                word_timings)
    IN  [speaker |-> segment.speaker,
         start_time |-> segment.start_time,
         end_time |-> segment.end_time,
         text |-> segment.text,
         real_timing_data |-> segment.real_timing_data,
         word_timings |-> word_timings,
         caption_chunks |-> caption_chunks,
         word_count |-> Len(word_timings)]

\* Lines 317-321 over the enhanced segments, in order
RECURSIVE AccumulateStats(_, _)
AccumulateStats(speaker_stats, enhanced_segments) ==
    IF enhanced_segments = <<>> THEN speaker_stats
    ELSE LET seg == Head(enhanced_segments)
         IN  AccumulateStats(
                 [speaker_stats EXCEPT
                     ![seg.speaker] =
                         [duration |-> @.duration + (seg.end_time - seg.start_time),
                          words |-> @.words + seg.word_count]],
                 Tail(enhanced_segments))

RECURSIVE MaxEndTime(_, _)
MaxEndTime(total_duration, segments) ==
    IF segments = <<>> THEN total_duration
    ELSE MaxEndTime(Max(total_duration, Head(segments).end_time), Tail(segments))

RaisedResult ==
    [raised |-> TRUE, segments |-> <<>>, captions |-> <<>>, total_duration |-> 0,
     speaker_stats |-> NewSpeakerStats, caption_count |-> 0]

\* CaptionProcessor.enhance_timeline_with_captions; speaker_stats[speaker] raises
\* KeyError for a speaker outside the dict, re-raised as Exception (line 350).
EnhanceWith(self, segments, speaker_stats) ==
    LET enhanced_segments == [i \in DOMAIN segments |-> EnhanceSegment(self, segments[i])]
        all_captions == Concat([i \in DOMAIN segments |-> enhanced_segments[i].caption_chunks])
        sorted_captions == SortByStart(all_captions)
    IN  IF \E i \in DOMAIN segments : segments[i].speaker \notin DOMAIN speaker_stats
        THEN RaisedResult
        ELSE [raised |-> FALSE,
              segments |-> enhanced_segments,
              captions |-> sorted_captions,
              total_duration |-> MaxEndTime(0, segments),
              speaker_stats |-> AccumulateStats(speaker_stats, enhanced_segments),
              caption_count |-> Len(sorted_captions)]

enhance_timeline_with_captions(self, segments) ==
    EnhanceWith(self, segments, NewSpeakerStats)

----------------------------------------------------------------------------
(* Voiceover.  A synthesis call returns False, or a dict holding the audio
   path and the alignment of the response. *)

SynthesisFailed == [success |-> FALSE, timing_data |-> NoneAlignment]

SynthesisDone(alignment) == [success |-> TRUE, timing_data |-> alignment]

\* batch_generate_voice_segments: the timing entries collected for the
\* segments whose synthesis call returned a truthy value
RECURSIVE batch_generate_voice_segments(_, _)
batch_generate_voice_segments(segments_data, synthesized) ==
    IF segments_data = <<>> THEN <<>>
    ELSE (IF Head(synthesized).success
          THEN <<[speaker |-> Head(segments_data).speaker,
                  text |-> Head(segments_data).text,
                  timing_data |-> NoneAlignment]>>
          ELSE <<>>)
         \o batch_generate_voice_segments(Tail(segments_data), Tail(synthesized))

----------------------------------------------------------------------------
(* OpenCVVideoGenerator.  A frame time frame_num / fps is not a whole number
   of milliseconds, so the frame loop compares times multiplied by fps:
   frame_num * 1000 against milliseconds * fps.  An opacity is carried as its
   numerator over AlphaDen. *)

fps == 30

DefaultSilentMs == 30000

TransitionMs == 800

HalfTransitionMs == TransitionMs \div 2

AlphaDen == HalfTransitionMs * fps

\* max(0.7, alpha)
MinAlpha == (7 * AlphaDen) \div 10

NoAudio == [isNone |-> TRUE, probed |-> 0]

\* An audio file, with the duration ffprobe, OpenCV or the file size give for
\* it (0 when every method fails)
AudioFile(probed) == [isNone |-> FALSE, probed |-> probed]

get_audio_duration(audio_path, segments) ==
    LET max_end_time == SetMax({segments[i].end_time : i \in DOMAIN segments})
    IN  IF segments # <<>> /\ max_end_time > 0 THEN max_end_time
        ELSE IF audio_path.isNone THEN DefaultSilentMs
        ELSE audio_path.probed

\* int(audio_duration * self.fps)
TotalFrames(audio_duration) == (audio_duration * fps) \div 1000

NoSpeaker == <<>>

\* The first segment with start_time <= current_time <= end_time
CurrentSpeaker(frame_num, segments) ==
    LET at == {i \in DOMAIN segments :
                  /\ segments[i].start_time * fps <= frame_num * 1000
                  /\ frame_num * 1000 <= segments[i].end_time * fps}
    IN  IF at = {} THEN NoSpeaker ELSE segments[SetMin(at)].speaker

\* The same without max(0.7, alpha) inside the segment
Alpha_floor_dropped(frame_num, segment) ==
    LET current_time == frame_num * 1000
        segment_start == segment.start_time * fps
        segment_end == segment.end_time * fps
        transition_start == segment_start - AlphaDen
        transition_end == segment_end + AlphaDen
    IN  IF transition_start <= current_time /\ current_time <= transition_end
        THEN IF current_time < segment_start
             THEN Max(0, Min(AlphaDen, current_time - transition_start))
             ELSE IF current_time <= segment_end
                  THEN Min(Min(AlphaDen, current_time - segment_start),
                           Min(AlphaDen, segment_end - current_time))
                  ELSE Max(0, Min(AlphaDen, AlphaDen - (current_time - segment_end)))
        ELSE 0

\* The opacity the loop computes for one segment at frame frame_num
Alpha(frame_num, segment) ==
    LET current_time == frame_num * 1000
        segment_start == segment.start_time * fps
        segment_end == segment.end_time * fps
        transition_start == segment_start - AlphaDen
        transition_end == segment_end + AlphaDen
    IN  IF transition_start <= current_time /\ current_time <= transition_end
        THEN IF current_time < segment_start
             THEN Max(0, Min(AlphaDen, current_time - transition_start))
             ELSE IF current_time <= segment_end
                  THEN Max(MinAlpha,
                           Min(Min(AlphaDen, current_time - segment_start),
                               Min(AlphaDen, segment_end - current_time)))
                  ELSE Max(0, Min(AlphaDen, AlphaDen - (current_time - segment_end)))
        ELSE 0

\* The speakers the frame loop has an image branch for
OverlaySpeakers == {samay, elon, trump, baburao, arpit, mrbeast}

\* What the loop draws on a frame: the image of current_speaker through
\* _overlay_image, which blends with the image's own alpha channel only, so
\* at the full opacity AlphaDen; the alpha computed for the frame is not an
\* argument of the call.
Overlays(current_speaker) ==
    IF current_speaker \in OverlaySpeakers
    THEN {[speaker |-> current_speaker, opacity |-> AlphaDen]}
    ELSE {}

\* Where the loop stands after a frame: a failed read gives a solid
\* background, _overlay_image and render_caption catch their exceptions
StageAfterFrame_failure_raises(bg_read, overlay_ok, caption_ok) ==
    IF bg_read /\ overlay_ok /\ caption_ok THEN "frames" ELSE "raised"

StageAfterFrame(bg_read, overlay_ok, caption_ok) == "frames"

NoCaption == [text |-> <<>>, start |-> 0, end |-> 0, speaker |-> NoSpeaker]

\* CaptionProcessor.get_current_caption, None being NoCaption
get_current_caption(frame_num, captions) ==
    LET at == {k \in DOMAIN captions :
                  /\ captions[k].start * fps <= frame_num * 1000
                  /\ frame_num * 1000 <= captions[k].end * fps}
    IN  IF at = {} THEN NoCaption ELSE captions[SetMin(at)]

----------------------------------------------------------------------------
(* Inputs the callers are drawn from *)

Letters(n) == Rep("a", n)

\* A text of words of the given lengths, single spaces between them
TextOf(lens) == JoinWords([i \in DOMAIN lens |-> Letters(lens[i])])

WordLenSeqs ==
    {<<1>>, <<2, 5>>, <<6, 6>>, <<25, 25>>, <<1, 1, 1, 1, 1, 1, 1, 1, 1>>}

Texts == {TextOf(lens) : lens \in WordLenSeqs} \cup {<<"a", " ", " ", "a", "a">>}

AllKeys == {CharsKey, StartsKey, EndsKey}

\* Per-character times as the synthesis service reports them: character i of
\* the text runs from (i - 1) * step to i * step
Ramp(n, step, from) == [i \in 1..n |-> (from + i - 1) * step]

\* The shapes of alignment data fed to the builder.  "exact" spells the text
\* at 46 ms per character; "leading_silence" does so one step later;
\* "trailing_silence" adds a final blank lasting 5 s;
\* AlignmentOf also builds "one_end_time", a single end time of 3.4 s against
\* n characters, which Items pairs with the long text only.
AlignmentKinds ==
    {"none", "empty_dict", "no_timing_keys", "empty_end_times", "mismatched",
     "zero_times", "exact", "leading_silence", "trailing_silence"}

AlignmentOf(kind, text) ==
    LET n == Len(text)
        CharStep == 46
        TrailingSilence == 5000
    IN  CASE kind = "none" -> NoneAlignment
          [] kind = "empty_dict" -> MkAlignment({}, <<>>, <<>>, <<>>)
          [] kind = "no_timing_keys" -> MkAlignment({CharsKey}, text, <<>>, <<>>)
          [] kind = "empty_end_times" ->
                MkAlignment(AllKeys, text, Ramp(n, CharStep, 0), <<>>)
          [] kind = "mismatched" ->
                MkAlignment(AllKeys, text, Ramp(n - 1, CharStep, 0), Ramp(n, CharStep, 1))
          [] kind = "zero_times" ->
                MkAlignment(AllKeys, text, Ramp(n, 0, 0), Ramp(n, 0, 0))
          [] kind = "exact" ->
                MkAlignment(AllKeys, text, Ramp(n, CharStep, 0), Ramp(n, CharStep, 1))
          [] kind = "leading_silence" ->
                MkAlignment(AllKeys, text, Ramp(n, CharStep, 1), Ramp(n, CharStep, 2))
          [] kind = "trailing_silence" ->
                MkAlignment(AllKeys, Append(text, " "),
                            Append(Ramp(n, CharStep, 0), n * CharStep),
                            Append(Ramp(n, CharStep, 1), n * CharStep + TrailingSilence))
          [] kind = "one_end_time" ->
                MkAlignment(AllKeys, text, Ramp(n, CharStep, 0), <<3400>>)

Items ==
    {[speaker |-> elon, text |-> t, timing_data |-> NoneAlignment] : t \in Texts}
    \cup {[speaker |-> trump, text |-> TextOf(<<2, 5>>),
           timing_data |-> AlignmentOf(k, TextOf(<<2, 5>>))] : k \in AlignmentKinds}
    \cup {[speaker |-> trump, text |-> TextOf(<<1>>),
           timing_data |-> AlignmentOf(k, TextOf(<<1>>))] :
              k \in {"empty_dict", "zero_times", "mismatched"}}
    \cup {[speaker |-> elon, text |-> TextOf(<<25, 25>>),
           timing_data |-> AlignmentOf(k, TextOf(<<25, 25>>))] :
              k \in {"exact", "one_end_time"}}

Sentence(lens) == TextOf(lens) \o <<".">>

Scripts ==
    { <<>>,
      Sentence(<<2, 3>>) \o <<" ">> \o Sentence(<<4, 2>>),
      Sentence(<<25, 25>>) \o <<" ">> \o Sentence(<<25, 25>>),
      TextOf(<<25, 25>>) \o <<"\n", "\n">> \o TextOf(<<6, 6>>),
      <<"a", "a", " ", "a", ".", "a", " ", "a", "a", "a">>,
      <<"*", "*", "E", "l", "o", "n", ":", "*", "*", " ">> \o TextOf(<<2, 5>>)
          \o <<" ", "*", "*", "T", ":", "*", "*", " ">> \o TextOf(<<1>>) }

\* Scripts that hold no words: blanks only, punctuation only, a marker with
\* blank text
BlankScripts ==
    { <<" ", "\n">>,
      <<".", ".", "!", " ", "?">>,
      <<"*", "*", "A", ":", "*", "*", " ">> }

\* Scripts with markers: a '*' inside a turn, a name and texts with blanks
\* around them, a marker with blank text before another marker
StarredScript ==
    <<"*", "*", "E", "l", "o", "n", ":", "*", "*", " ", "a", "*", "a", " ",
      "*", "*", "T", ":", "*", "*", " ", "a">>

MarkedScripts ==
    { StarredScript,
      <<"*", "*", " ", "E", " ", ":", "*", "*", " ", " ", "a", " ", " ",
        "*", "*", "T", ":", "*", "*", "\n", "a", "a", "\n">>,
      <<"*", "*", "A", ":", "*", "*", " ", "*", "*", "B", ":", "*", "*", " ", "a">> }

\* n one-word sentences of len letters each: "aaa. aaa. aaa."
Monologue(n, len) ==
    [i \in 1..(n * (len + 2) - 1) |->
        LET r == (i - 1) % (len + 2)
        IN  IF r < len THEN "a" ELSE IF r = len THEN "." ELSE " "]

\* n one-word paragraphs of len letters each, an empty line between them
Paragraphed(n, len) ==
    [i \in 1..(n * (len + 2) - 2) |->
        IF (i - 1) % (len + 2) < len THEN "a" ELSE "\n"]

\* Scripts of many pieces: each piece alone is longer than MinSegmentChars, or
\* only two of them together are
LongScripts ==
    {Monologue(n, len) : n \in 7..MaxSentences,
                         len \in {MinSegmentChars + 1, MinSegmentChars \div 2 + 1}}
    \cup {Paragraphed(n, MinSegmentChars + 1) : n \in {9, MaxSentences}}

unknown_pair == <<"x">>

SpeakerPairs == {trump_mrbeast, trump_elon, unknown_pair}

NoRequest == [script_text |-> <<>>, speaker_pair |-> <<>>, timing_data |-> <<>>]

Requests ==
    {[script_text |-> sc, speaker_pair |-> sp, timing_data |-> <<>>] :
        sc \in Scripts, sp \in SpeakerPairs}
    \cup {[script_text |-> <<>>, speaker_pair |-> trump_mrbeast, timing_data |-> td] :
            td \in NonEmptySeqs(Items, MaxSegs)}

EstimateStarts == {100, 104, 1596}

EstimateSpans == {0 - 100, 0, 102, 1000, 3001}

CharLimits == {3, 6, 30, 50, 80}

WordSpans == {100, 2500}

WordLens == {1, 4}

\* Word timings laid end to end from time from on
RECURSIVE LayWords(_, _)
LayWords(shape, from) ==
    IF shape = <<>> THEN <<>>
    ELSE <<[word |-> Letters(Head(shape)[1]), start |-> from,
            end |-> from + Head(shape)[2]]>>
         \o LayWords(Tail(shape), from + Head(shape)[2])

WordTimingInputs == {LayWords(shape, 0) : shape \in AllSeqs(WordLens \X WordSpans, MaxChunkWords)}

RECURSIVE WordsOf(_)
WordsOf(word_timings) ==
    IF word_timings = <<>> THEN <<>>
    ELSE <<Head(word_timings).word>> \o WordsOf(Tail(word_timings))

SegmentTail == {0, 3000}

NoCall ==
    [op |-> "none", text |-> <<>>, start_time |-> 0, end_time |-> 0,
     speaker |-> <<>>, word_timings |-> <<>>, timing_data |-> NoneAlignment]

\* Texts for the precise resolver: single, repeated and leading blanks
ExtractTexts ==
    {TextOf(<<2, 5>>), <<"a", " ", " ", "a", "a">>, <<" ", "a", "a", " ", "a">>}

ExtractStarts == {0, 1200}

\* Alignment data spelling the first k characters of the text, 50 ms each
Spelled(text, k) ==
    MkAlignment(AllKeys, SubSeq(text, 1, k), Ramp(k, 50, 0), Ramp(k, 50, 1))

MarkedScript ==
    <<"*", "*", "E", "l", "o", "n", ":", "*", "*", " ">> \o TextOf(<<2, 5>>)
        \o <<" ", "*", "*", "T", ":", "*", "*", " ">> \o TextOf(<<1>>)

RenderItems ==
    {[speaker |-> elon, text |-> TextOf(<<1>>), timing_data |-> NoneAlignment],
     [speaker |-> trump, text |-> TextOf(<<2, 5>>),
      timing_data |-> AlignmentOf("exact", TextOf(<<2, 5>>))],
     [speaker |-> trump, text |-> TextOf(<<1>>),
      timing_data |-> AlignmentOf("zero_times", TextOf(<<1>>))]}

RenderRequests ==
    {[script_text |-> sc, speaker_pair |-> trump_elon, timing_data |-> <<>>] :
        sc \in {<<>>, MarkedScript}}
    \cup {[script_text |-> <<>>, speaker_pair |-> trump_mrbeast, timing_data |-> td] :
            td \in NonEmptySeqs(RenderItems, MaxSegs)}

AudioPaths == {NoAudio, AudioFile(0), AudioFile(700)}

\* How the ffmpeg run of _add_audio_with_ffmpeg / _create_silent_video ends:
\* exit 0 with the file written, or a non-zero exit before or after ffmpeg
\* has begun writing output_path
FfmpegOutcomes == {"written", "failed", "failed_partial"}

\* AsyncVideoProcessor.__init__.  jobs and processing_threads are the dicts
\* of the instance, a job id being the position of the job in jobs; calls
\* holds where the create_job call of each job stands, threads where the
\* thread of each job stands ("none": no thread was made for it).
max_concurrent_jobs == 2

AsyncVideoProcessor ==
    [jobs |-> <<>>, processing_threads |-> {}, calls |-> <<>>, threads |-> <<>>]

TaskTypes == {"case_study_video", "article_reel", "other"}

JobIds == 1..MaxJobs

NoRender ==
    [stage |-> "none", audio_path |-> NoAudio, enable_captions |-> TRUE,
     total_frames |-> 0, frames_written |-> 0, current_speaker |-> NoSpeaker,
     alphas |-> <<>>, caption |-> NoCaption, temp_video |-> FALSE,
     output_file |-> "absent", background |-> "none", overlays |-> {},
     caption_drawn |-> FALSE, failures |-> {}, frames |-> <<>>]

----------------------------------------------------------------------------
(* The state machine: one entry point of the engine is exercised per run *)

Init ==
    /\ pc = "idle"
    /\ request = NoRequest
    /\ timeline = <<>>
    /\ results = <<>>
    /\ processor = CaptionProcessor
    /\ call = NoCall
    /\ output = <<>>
    /\ render = NoRender
    /\ synthesis = <<>>
    /\ async_processor = AsyncVideoProcessor

\* A caller builds the timeline of a render request
CreateTimeline ==
    /\ pc = "idle"
    /\ \E req \in Requests :
          /\ request' = req
          /\ timeline' = create_speaker_timeline_with_timing_data(
                             req.script_text, req.speaker_pair, req.timing_data)
    /\ pc' = "timeline"
    /\ UNCHANGED <<results, processor, call, output, render, synthesis, async_processor>>

\* The same call with speaker_stats kept on the shared processor between calls
EnhanceTimeline_stats_kept ==
    /\ pc = "timeline"
    /\ Len(results) < MaxCalls
    /\ results' = Append(results,
                         EnhanceWith(CaptionProcessor, timeline,
                                     IF results = <<>> THEN NewSpeakerStats
                                     ELSE Last(results).speaker_stats))
    /\ UNCHANGED <<pc, request, timeline, processor, call, output, render, synthesis, async_processor>>

\* The module-level enhance_timeline_with_captions, on the shared processor
EnhanceTimeline ==
    /\ pc = "timeline"
    /\ Len(results) < MaxCalls
    /\ results' = Append(results, enhance_timeline_with_captions(CaptionProcessor, timeline))
    /\ UNCHANGED <<pc, request, timeline, processor, call, output, render, synthesis, async_processor>>

\* processor.max_chars_per_line = ... on a locally constructed processor
SetMaxChars ==
    /\ pc = "idle"
    /\ \E m \in CharLimits \ {processor.max_chars_per_line} :
          processor' = [processor EXCEPT !.max_chars_per_line = m]
    /\ pc' = "configured"
    /\ UNCHANGED <<request, timeline, results, call, output, render, synthesis, async_processor>>

EstimateWordTiming ==
    /\ pc = "idle"
    /\ \E text \in Texts, start_time \in EstimateStarts, span \in EstimateSpans :
          /\ call' = [NoCall EXCEPT !.op = "estimate", !.text = text,
                                    !.start_time = start_time,
                                    !.end_time = start_time + span]
          /\ output' = estimate_word_timing(text, start_time, start_time + span)
    /\ pc' = "called"
    /\ UNCHANGED <<request, timeline, results, processor, render, synthesis, async_processor>>

CreateCaptionChunks ==
    /\ pc \in {"idle", "configured"}
    /\ \E word_timings \in WordTimingInputs, tail \in SegmentTail :
          LET end_time == IF word_timings = <<>> THEN tail
                          ELSE Last(word_timings).end + tail
              text == JoinWords(WordsOf(word_timings))
          IN  /\ call' = [NoCall EXCEPT !.op = "chunks", !.text = text,
                                        !.end_time = end_time, !.speaker = elon,
                                        !.word_timings = word_timings]
              /\ output' = create_caption_chunks(processor, text, 0, end_time, elon,
                                                 word_timings)
    /\ pc' = "called"
    /\ UNCHANGED <<request, timeline, results, processor, render, synthesis, async_processor>>

\* A direct call of _extract_word_timing_from_elevenlabs
ExtractWordTiming ==
    /\ pc = "idle"
    /\ \E text \in ExtractTexts, segment_start_time \in ExtractStarts :
          \E k \in 1..Len(text) :
             /\ call' = [NoCall EXCEPT !.op = "extract", !.text = text,
                                       !.start_time = segment_start_time,
                                       !.timing_data = Spelled(text, k)]
             /\ output' = _extract_word_timing_from_elevenlabs(
                              text, segment_start_time, Spelled(text, k))
    /\ pc' = "called"
    /\ UNCHANGED <<request, timeline, results, processor, render, synthesis, async_processor>>

\* A direct call of parse_conversational_script
ParseScript ==
    /\ pc = "idle"
    /\ \E script_text \in Scripts \cup BlankScripts \cup MarkedScripts \cup LongScripts,
          speaker_pair \in SpeakerPairs :
          /\ call' = [NoCall EXCEPT !.op = "parse", !.text = script_text,
                                    !.speaker = speaker_pair]
          /\ output' = parse_conversational_script(script_text, speaker_pair)
    /\ pc' = "called"
    /\ UNCHANGED <<request, timeline, results, processor, render, synthesis, async_processor>>

\* create_video_with_overlays_and_captions up to the creation of the video
\* writer: timeline, captions, duration, background
CreateVideo ==
    /\ pc = "idle"
    /\ \E req \in RenderRequests, audio_path \in AudioPaths,
          enable_captions \in BOOLEAN, background_loaded \in BOOLEAN :
          LET segments == create_speaker_timeline_with_timing_data(
                              req.script_text, req.speaker_pair, req.timing_data)
              enhanced_timeline == enhance_timeline_with_captions(CaptionProcessor, segments)
              audio_duration == get_audio_duration(audio_path, segments)
              passed == /\ ~(enable_captions /\ enhanced_timeline.raised)
                        /\ audio_duration > 0
                        /\ background_loaded
          IN  /\ request' = req
              /\ timeline' = segments
              /\ results' = IF enable_captions THEN <<enhanced_timeline>> ELSE <<>>
              /\ render' = [NoRender EXCEPT
                               !.stage = IF passed THEN "frames" ELSE "raised",
                               !.audio_path = audio_path,
                               !.enable_captions = enable_captions,
                               !.total_frames = IF passed THEN TotalFrames(audio_duration)
                                                ELSE 0,
                               !.temp_video = passed]
    /\ pc' = "render"
    /\ UNCHANGED <<processor, call, output, synthesis, async_processor>>

\* One iteration of the frame loop.  bg_read is the ret of the background
\* read, overlay_ok and caption_ok tell whether _overlay_image and
\* render_caption ran without an exception.
GenerateFrame ==
    /\ render.stage = "frames"
    /\ render.frames_written < render.total_frames
    /\ \E bg_read \in BOOLEAN, overlay_ok \in BOOLEAN, caption_ok \in BOOLEAN :
          LET frame_num == render.frames_written
              captions == IF render.enable_captions THEN results[1].captions ELSE <<>>
              current_speaker == CurrentSpeaker(frame_num, timeline)
              current_caption == get_current_caption(frame_num, captions)
          IN  render' = [render EXCEPT
                            !.stage = StageAfterFrame(bg_read, overlay_ok, caption_ok),
                            !.background = IF bg_read THEN "video" ELSE "solid",
                            !.current_speaker = current_speaker,
                            !.alphas = [i \in DOMAIN timeline |->
                                           Alpha(frame_num, timeline[i])],
                            !.overlays = IF overlay_ok THEN Overlays(current_speaker)
                                         ELSE {},
                            !.caption = current_caption,
                            !.caption_drawn = /\ caption_ok
                                              /\ current_caption # NoCaption
                                              /\ Strip(current_caption.text) # <<>>,
                            !.failures =
                                (IF bg_read THEN {} ELSE {"background"})
                                \cup (IF overlay_ok \/ current_speaker \notin OverlaySpeakers
                                      THEN {} ELSE {"overlay"})
                                \cup (IF caption_ok \/ current_caption = NoCaption
                                      THEN {} ELSE {"caption"}),
                            !.frames = Append(render.frames, frame_num),
                            !.frames_written = frame_num + 1]
    /\ UNCHANGED <<pc, request, timeline, results, processor, call, output, synthesis,
                   async_processor>>

\* After the loop: ffmpeg writes output_path from the temporary video, the
\* temporary video is removed, the output is verified
FinishVideo ==
    /\ render.stage = "frames"
    /\ render.frames_written = render.total_frames
    /\ \E outcome \in FfmpegOutcomes :
          render' = IF outcome = "written"
                    THEN [render EXCEPT !.stage = "returned", !.temp_video = FALSE,
                                        !.output_file = "complete"]
                    ELSE [render EXCEPT !.stage = "raised",
                                        !.output_file = IF outcome = "failed_partial"
                                                        THEN "partial" ELSE "absent"]
    /\ UNCHANGED <<pc, request, timeline, results, processor, call, output, synthesis,
                   async_processor>>

\* generate_conversational_voiceover: parse, synthesise every segment,
\* combine; it raises when no segment was synthesised
GenerateVoiceover ==
    /\ pc = "idle"
    /\ \E script_text \in Scripts, speaker_pair \in SpeakerPairs :
          LET speaker_segments == parse_conversational_script(script_text, speaker_pair)
          IN  \E succeeded \in [DOMAIN speaker_segments -> BOOLEAN] :
                 LET synthesized ==
                         [i \in DOMAIN speaker_segments |->
                             IF succeeded[i]
                             THEN SynthesisDone(AlignmentOf("exact", speaker_segments[i].text))
                             ELSE SynthesisFailed]
                     timing_data == batch_generate_voice_segments(speaker_segments,
                                                                  synthesized)
                 IN  /\ synthesis' = synthesized
                     /\ request' = [script_text |-> script_text,
                                    speaker_pair |-> speaker_pair,
                                    timing_data |-> timing_data]
                     /\ pc' = IF timing_data = <<>> THEN "raised" ELSE "voiced"
    /\ UNCHANGED <<timeline, results, processor, call, output, render, async_processor>>

\* The caller builds the timeline from what the voiceover returned
TimelineFromVoiceover ==
    /\ pc = "voiced"
    /\ timeline' = create_speaker_timeline_with_timing_data(
                       request.script_text, request.speaker_pair, request.timing_data)
    /\ pc' = "timeline"
    /\ UNCHANGED <<request, results, processor, call, output, render, synthesis, async_processor>>

\* create_job up to the call of _start_processing: the job is registered as
\* pending.  Calls may come from several threads, so a call is created while
\* others are still under way.
CreateJob ==
    /\ pc \in {"idle", "jobs"}
    /\ Len(async_processor.jobs) < MaxJobs
    /\ \E task_type \in TaskTypes :
          async_processor' =
              [async_processor EXCEPT
                  !.jobs = Append(@, [status |-> "pending", task_type |-> task_type]),
                  !.calls = Append(@, "checking"),
                  !.threads = Append(@, "none")]
    /\ pc' = "jobs"
    /\ UNCHANGED <<request, timeline, results, processor, call, output, render, synthesis>>

\* _start_processing, the test of the limit: at the limit the call returns
\* and the job is left as it is
CheckCapacity(job_id) ==
    /\ job_id \in DOMAIN async_processor.calls
    /\ async_processor.calls[job_id] = "checking"
    /\ async_processor' =
          [async_processor EXCEPT
              !.calls[job_id] =
                  IF Cardinality(async_processor.processing_threads) >= max_concurrent_jobs
                  THEN "queued" ELSE "starting"]
    /\ UNCHANGED <<pc, request, timeline, results, processor, call, output, render, synthesis>>

\* _start_processing, below the limit: the thread is made, registered and
\* started
StartThread(job_id) ==
    /\ job_id \in DOMAIN async_processor.calls
    /\ async_processor.calls[job_id] = "starting"
    /\ async_processor' =
          [async_processor EXCEPT
              !.processing_threads = @ \cup {job_id},
              !.threads[job_id] = "started",
              !.calls[job_id] = "returned"]
    /\ UNCHANGED <<pc, request, timeline, results, processor, call, output, render, synthesis>>

\* process_job, its first statements
BeginJob(job_id) ==
    /\ job_id \in DOMAIN async_processor.threads
    /\ async_processor.threads[job_id] = "started"
    /\ async_processor' =
          [async_processor EXCEPT
              !.jobs[job_id].status = "processing",
              !.threads[job_id] = "working"]
    /\ UNCHANGED <<pc, request, timeline, results, processor, call, output, render, synthesis>>

\* process_job, the processing function has returned or raised:
\* _process_case_study_video does either, _process_article_reel returns
\* None, any other task type raises ValueError
FinishJob(job_id) ==
    /\ job_id \in DOMAIN async_processor.threads
    /\ async_processor.threads[job_id] = "working"
    /\ \E raised \in BOOLEAN :
          /\ async_processor.jobs[job_id].task_type = "article_reel" => ~raised
          /\ async_processor.jobs[job_id].task_type = "other" => raised
          /\ async_processor' =
                [async_processor EXCEPT
                    !.jobs[job_id].status = IF raised THEN "failed" ELSE "completed",
                    !.threads[job_id] = "finishing"]
    /\ UNCHANGED <<pc, request, timeline, results, processor, call, output, render, synthesis>>

\* process_job, the finally clause
ReleaseThread(job_id) ==
    /\ job_id \in DOMAIN async_processor.threads
    /\ async_processor.threads[job_id] = "finishing"
    /\ async_processor' =
          [async_processor EXCEPT
              !.processing_threads = @ \ {job_id},
              !.threads[job_id] = "ended"]
    /\ UNCHANGED <<pc, request, timeline, results, processor, call, output, render, synthesis>>

Next ==
    \/ CreateTimeline
    \/ EnhanceTimeline
    \/ SetMaxChars
    \/ EstimateWordTiming
    \/ CreateCaptionChunks
    \/ ParseScript
    \/ ExtractWordTiming
    \/ CreateVideo
    \/ GenerateFrame
    \/ FinishVideo
    \/ GenerateVoiceover
    \/ TimelineFromVoiceover
    \/ CreateJob
    \/ \E job_id \in JobIds : CheckCapacity(job_id)
    \/ \E job_id \in JobIds : StartThread(job_id)
    \/ \E job_id \in JobIds : BeginJob(job_id)
    \/ \E job_id \in JobIds : FinishJob(job_id)
    \/ \E job_id \in JobIds : ReleaseThread(job_id)

Spec == Init /\ [][Next]_vars

\* The frame loop is a for loop of the calling thread: while an iteration is
\* left it is taken.
FairSpec == Spec /\ WF_vars(GenerateFrame)

\* A create_job call under way goes on to its end, and a started thread
\* runs: its processing function terminates and its finally clause is
\* executed.
FairJobsSpec ==
    /\ Spec
    /\ \A job_id \in JobIds :
          /\ WF_vars(CheckCapacity(job_id))
          /\ WF_vars(StartThread(job_id))
          /\ WF_vars(BeginJob(job_id))
          /\ WF_vars(FinishJob(job_id))
          /\ WF_vars(ReleaseThread(job_id))

----------------------------------------------------------------------------
(* Properties *)

Built == pc = "timeline"

Enhanced == results # <<>> /\ ~results[1].raised

FromTimingData == request.timing_data # <<>>

\* All chunks of the enhanced segments in the order the code collects them
CollectedChunks(result) ==
    Concat([i \in DOMAIN result.segments |-> result.segments[i].caption_chunks])

\* The three parallel arrays are there, non-empty and of one length
WellFormed(alignment) ==
    /\ ~alignment.isNone
    /\ Get(alignment, CharsKey) # <<>>
    /\ Len(Get(alignment, StartsKey)) = Len(Get(alignment, CharsKey))
    /\ Len(Get(alignment, EndsKey)) = Len(Get(alignment, CharsKey))

\* Mismatched array lengths, or a dict without the timing keys
Malformed(alignment) ==
    /\ ~alignment.isNone
    /\ \/ ~({StartsKey, EndsKey} \subseteq alignment.keys)
       \/ Len(Get(alignment, StartsKey)) # Len(Get(alignment, CharsKey))
       \/ Len(Get(alignment, EndsKey)) # Len(Get(alignment, CharsKey))

RECURSIVE SumDurations(_)
SumDurations(word_timings) ==
    IF word_timings = <<>> THEN 0
    ELSE (Head(word_timings).end - Head(word_timings).start)
         + SumDurations(Tail(word_timings))

\* C1: in every timeline the builder returns, from timing data or from the
\* script alone, a segment ends no later than the next one starts, and the
\* next one starts exactly the 0.2 s pause after it.
C1_NoOverlap ==
    Built =>
        \A i \in 1..(Len(timeline) - 1) :
            /\ timeline[i].end_time <= timeline[i + 1].start_time
            /\ timeline[i + 1].start_time = timeline[i].end_time + PauseMs

C1_Witness ==
    /\ Built
    /\ FromTimingData
    /\ Len(timeline) >= 2
    /\ WellFormed(timeline[1].real_timing_data)
    /\ timeline[2].real_timing_data.isNone

\* C2: every segment of a built timeline has start_time < end_time, whatever
\* alignment data its item carries.
C2_PositiveDuration ==
    Built => \A i \in DOMAIN timeline : timeline[i].start_time < timeline[i].end_time

\* C3: items whose alignment data is malformed give exactly the segment
\* times (estimated durations), word timings and captions that the same
\* items give with alignment data None, and enhancing them does not raise.
C3_DegradesToNone ==
    (Built /\ FromTimingData /\ results # <<>>
       /\ \A i \in DOMAIN request.timing_data : Malformed(request.timing_data[i].timing_data))
    =>
        LET without == [i \in DOMAIN request.timing_data |->
                           [request.timing_data[i] EXCEPT !.timing_data = NoneAlignment]]
            plain == enhance_timeline_with_captions(
                         CaptionProcessor,
                         create_speaker_timeline_with_timing_data(
                             request.script_text, request.speaker_pair, without))
            got == results[1]
        IN  /\ ~got.raised
            /\ Len(got.segments) = Len(plain.segments)
            /\ \A i \in DOMAIN got.segments :
                  /\ got.segments[i].start_time = plain.segments[i].start_time
                  /\ got.segments[i].end_time = plain.segments[i].end_time
                  /\ got.segments[i].end_time - got.segments[i].start_time
                        = EstimatedDuration(got.segments[i].text)
                  /\ got.segments[i].word_timings = plain.segments[i].word_timings
                  /\ got.segments[i].caption_chunks = plain.segments[i].caption_chunks
            /\ got.captions = plain.captions

EstimateCalled == pc = "called" /\ call.op = "estimate" /\ call.end_time > call.start_time

\* What C4 asks of the word timings, between the bounds lo and hi
WordsWithin(lo, hi) ==
    /\ Len(output) = WordCount(call.text)
    /\ \A k \in DOMAIN output :
          /\ output[k].word = Words(call.text)[k]
          /\ lo <= output[k].start
          /\ output[k].start <= output[k].end
          /\ output[k].end <= hi
    /\ \A k \in 1..(Len(output) - 1) : output[k + 1].start = output[k].end
    /\ SumDurations(output) <= hi - lo

\* C4 as stated: estimate_word_timing(text, start, end) with end > start gives
\* one timing per word in order with start <= word.start <= word.end <= end,
\* each word starting where the previous one ended, the durations summing to
\* at most end - start.
C4_WithinStartEnd == EstimateCalled => WordsWithin(call.start_time, call.end_time)

\* C4 amended: the same with start and end rounded to two decimals, as the
\* reported word times are.
C4_WithinRoundedStartEnd ==
    EstimateCalled => WordsWithin(RoundCs(call.start_time, 1), RoundCs(call.end_time, 1))

C4_Witness ==
    /\ EstimateCalled
    /\ Len(output) >= 2
    /\ call.start_time % 10 # 0
    /\ Last(output).end = RoundCs(call.end_time, 1)
    /\ output[1].end < Last(output).end

\* C5: in an enhanced timeline every word timing of a segment without usable
\* alignment data lies inside the segment: segment.start_time <= word.start
\* and word.end <= segment.end_time.
C5_WordsInsideSegment ==
    Enhanced =>
        \A i \in DOMAIN results[1].segments :
            LET seg == results[1].segments[i]
            IN  ~WellFormed(seg.real_timing_data) =>
                    \A k \in DOMAIN seg.word_timings :
                        /\ seg.start_time <= seg.word_timings[k].start
                        /\ seg.word_timings[k].end <= seg.end_time

ChunksCalled == pc = "called" /\ call.op = "chunks"

CharBound(chunks, max_chars) ==
    \A k \in DOMAIN chunks :
        \/ Len(chunks[k].text) <= max_chars
        \/ (WordCount(chunks[k].text) = 1 /\ Len(Words(chunks[k].text)[1]) > max_chars)

\* C6: every chunk create_caption_chunks returns is at most max_chars_per_line
\* long, unless it is one word that is itself longer than the limit; for any
\* configured limit and any word timings, and so for every enhanced timeline.
C6_ChunkCharBound ==
    /\ ChunksCalled => CharBound(output, processor.max_chars_per_line)
    /\ Enhanced => CharBound(results[1].captions, CaptionProcessor.max_chars_per_line)

C6_Witness ==
    /\ ChunksCalled
    /\ processor.max_chars_per_line = 3
    /\ Len(output) = 2
    /\ Len(output[1].text) = 3
    /\ Len(output[2].text) > 3

\* C7: every caption chunk produced for a segment, the last one included,
\* lasts at most max_duration_per_caption unless it consists of a single word.
C7_ChunkDurationBound ==
    Enhanced =>
        \A i \in DOMAIN results[1].segments :
            \A k \in DOMAIN results[1].segments[i].caption_chunks :
                LET chunk == results[1].segments[i].caption_chunks[k]
                IN  \/ chunk.end - chunk.start <= CaptionProcessor.max_duration_per_caption
                    \/ WordCount(chunk.text) = 1

StartingAt(chunks, t) ==
    LET AtT(c) == c.start = t
    IN  SelectSeq(chunks, AtT)

\* C8: the flattened captions are sorted non-decreasing by start, and chunks
\* with equal start keep the order of their segments and, within a segment,
\* their chunk order.
C8_SortedStable ==
    Enhanced =>
        LET captions == results[1].captions
            collected == CollectedChunks(results[1])
        IN  /\ \A k \in 1..(Len(captions) - 1) : captions[k].start <= captions[k + 1].start
            /\ Len(captions) = Len(collected)
            /\ \A k \in DOMAIN captions :
                  StartingAt(captions, captions[k].start)
                      = StartingAt(collected, captions[k].start)

C8_Witness ==
    /\ Enhanced
    /\ Len(results[1].segments) = 2
    /\ \E a \in DOMAIN results[1].segments[1].caption_chunks :
          \E b \in DOMAIN results[1].segments[2].caption_chunks :
             /\ results[1].segments[1].caption_chunks[a].start
                   = results[1].segments[2].caption_chunks[b].start
             /\ results[1].segments[1].caption_chunks[a]
                   # results[1].segments[2].caption_chunks[b]
             /\ \E k \in 1..(Len(results[1].captions) - 1) :
                   /\ results[1].captions[k] = results[1].segments[1].caption_chunks[a]
                   /\ results[1].captions[k + 1] = results[1].segments[2].caption_chunks[b]

\* C9: in the flattened captions the chunks stay in segment order: every
\* chunk of segment i comes before every chunk of segment i + 1, and no
\* chunk of segment i starts at or after the start of segment i + 1.
C9_SegmentOrderKept ==
    Enhanced =>
        /\ results[1].captions = CollectedChunks(results[1])
        /\ \A i \in 1..(Len(results[1].segments) - 1) :
              \A k \in DOMAIN results[1].segments[i].caption_chunks :
                  results[1].segments[i].caption_chunks[k].start
                      < results[1].segments[i + 1].start_time

RECURSIVE SumOver(_, _)
SumOver(f, indices) ==
    IF indices = {} THEN 0
    ELSE LET i == CHOOSE j \in indices : TRUE
         IN  f[i] + SumOver(f, indices \ {i})

\* C11: enhance_timeline_with_captions returns, for every timeline of
\* well-formed segments, speaker_stats in which each speaker of the segments
\* (a built-in persona or a name taken from **Speaker:** markup) has the
\* summed duration and the summed word count of that speaker's segments.
C11_StatsPerSpeaker ==
    results # <<>> =>
        /\ ~results[1].raised
        /\ \A i \in DOMAIN timeline :
              LET sp == timeline[i].speaker
                  own == {j \in DOMAIN timeline : timeline[j].speaker = sp}
                  segs == results[1].segments
              IN  /\ sp \in DOMAIN results[1].speaker_stats
                  /\ results[1].speaker_stats[sp].duration
                        = SumOver([j \in own |-> segs[j].end_time - segs[j].start_time], own)
                  /\ results[1].speaker_stats[sp].words
                        = SumOver([j \in own |-> Len(segs[j].word_timings)], own)

ParseCalled == pc = "called" /\ call.op = "parse"

\* C12: parse_conversational_script never returns an empty list: a script
\* that is empty or yields no segment makes it fail instead.
C12_NeverEmptyList == ParseCalled => output # <<>>

Rendering == pc = "render"

\* C13: a render request with an empty script and no timing data is rejected
\* before any timing or rendering work: the call raises, and no frame is
\* generated or written.
C13_EmptyScriptRejected ==
    (Rendering /\ request.script_text = <<>> /\ request.timing_data = <<>>)
    =>
        /\ render.stage = "raised"
        /\ render.frames_written = 0
        /\ ~render.temp_video

FrameDone == Rendering /\ render.frames_written > 0

\* Time of the last generated frame and the bounds of segment i, times fps
FrameTime == (render.frames_written - 1) * 1000

SegStart(i) == timeline[i].start_time * fps

SegEnd(i) == timeline[i].end_time * fps

\* C15: for every segment and frame time t the computed alpha is between 0.7
\* and 1.0 when start <= t <= end, is 0.0 when t < start - T/2 or
\* t > end + T/2 (T = 0.8 s), and is between 0 and 1 in the pre- and
\* post-windows.
C15_AlphaRange ==
    FrameDone =>
        \A i \in DOMAIN timeline :
            LET alpha == render.alphas[i]
            IN  /\ 0 <= alpha /\ alpha <= AlphaDen
                /\ (SegStart(i) <= FrameTime /\ FrameTime <= SegEnd(i))
                      => 10 * alpha >= 7 * AlphaDen
                /\ (\/ 2 * FrameTime < 2 * SegStart(i) - TransitionMs * fps
                    \/ 2 * FrameTime > 2 * SegEnd(i) + TransitionMs * fps)
                      => alpha = 0

\* A frame exactly at the start of a later segment, the earlier one fading out
C15_Witness ==
    /\ FrameDone
    /\ \E i, j \in DOMAIN timeline :
          /\ FrameTime = SegStart(i)
          /\ 10 * render.alphas[i] = 7 * AlphaDen
          /\ FrameTime > SegEnd(j)
          /\ 0 < render.alphas[j] /\ render.alphas[j] < AlphaDen

\* C16: a call that raised has left nothing at output_path; a file is there
\* only after the call returned.
C16_NothingWrittenOnFailure ==
    Rendering =>
        /\ render.stage = "raised" => render.output_file = "absent"
        /\ render.output_file # "absent" => render.stage = "returned"

Unmarked(script_text) == FindExplicit(script_text, 1) = <<>>

\* C14: for a script without explicit speaker markers, the word timings of
\* all segments of the estimate-mode enhanced timeline number exactly the
\* whitespace-separated words of the script.
C14_WordCountPreserved ==
    (Enhanced /\ ~FromTimingData /\ Unmarked(request.script_text))
    =>
        SumOver([i \in DOMAIN results[1].segments |->
                    Len(results[1].segments[i].word_timings)],
                DOMAIN results[1].segments)
            = WordCount(request.script_text)

Voiced == pc = "timeline" /\ synthesis # <<>>

\* C17: the timeline built from the voiceover's timing data has exactly one
\* segment per parsed (speaker, text) pair, in script order, whichever
\* synthesis calls failed (at least one having succeeded).
C17_FailedSegmentKept ==
    Voiced =>
        LET parsed == parse_conversational_script(request.script_text,
                                                  request.speaker_pair)
        IN  /\ Len(timeline) = Len(parsed)
            /\ \A i \in DOMAIN timeline :
                  /\ timeline[i].speaker = parsed[i].speaker
                  /\ timeline[i].text = parsed[i].text

ExtractCalled == pc = "called" /\ call.op = "extract"

Characters == Get(call.timing_data, CharsKey)

\* Index in the text of the first and of the last character of word k
FirstChar(k) == Nth(WordStarts(call.text), k)

LastChar(k) == RunEnd(call.text, FirstChar(k))

\* Word k of the output carries word k of the text, timed from that word's
\* own characters as far as the arrays hold them
FromOwnCharacters(k) ==
    /\ output[k].word = Words(call.text)[k]
    /\ FirstChar(k) <= Len(Characters)
    /\ output[k].start
          = call.start_time + Get(call.timing_data, StartsKey)[FirstChar(k)]
    /\ output[k].end
          = call.start_time
              + Get(call.timing_data, EndsKey)[Min(LastChar(k), Len(Characters))]

\* C18: with well-formed alignment data whose characters spell the text, the
\* precise resolver returns one timing per word in text order, from the start
\* of the word's first character to the end of its last character, offset by
\* the segment start; blanks, leading ones included, belong to no word.
C18_WordsFromOwnCharacters ==
    (ExtractCalled /\ Characters = call.text)
    =>
        /\ Len(output) = WordCount(call.text)
        /\ \A k \in DOMAIN output : FromOwnCharacters(k)

\* C19: with well-formed arrays holding fewer characters than the text, the
\* precise resolver returns timings for a prefix of the word list, every
\* emitted word resolved from its own characters, in text order.
C19_PrefixOnShortfall ==
    (ExtractCalled /\ WellFormed(call.timing_data) /\ Len(Characters) < Len(call.text))
    =>
        /\ Len(output) <= WordCount(call.text)
        /\ \A k \in DOMAIN output : FromOwnCharacters(k)

\* Index, among the word timings, of the first word of chunk k
FirstWord(chunks, k) ==
    1 + SumOver([j \in 1..(k - 1) |-> WordCount(chunks[j].text)], 1..(k - 1))

StartsWithFirstWord(chunks, word_timings) ==
    \A k \in DOMAIN chunks :
        /\ FirstWord(chunks, k) <= Len(word_timings)
        /\ chunks[k].start = word_timings[FirstWord(chunks, k)].start

\* C20: every caption chunk starts at the start time of its first word, the
\* first chunk of a segment included, in estimate and in precise mode.
C20_ChunkStartsAtFirstWord ==
    /\ ChunksCalled => StartsWithFirstWord(output, call.word_timings)
    /\ Enhanced =>
          \A i \in DOMAIN results[1].segments :
              StartsWithFirstWord(results[1].segments[i].caption_chunks,
                                  results[1].segments[i].word_timings)

\* Where the script holds a marker **name:**
MarkerStarts(s) == {p \in DOMAIN s : MarkerAt(s, p)}

\* The turn of the k-th marker: its name, and the text up to the next marker
\* or the end of the script
Turn(s, k) ==
    LET p == Nth(MarkerStarts(s), k)
        later == {q \in MarkerStarts(s) : q > p}
        stop == IF later = {} THEN Len(s) ELSE SetMin(later) - 1
    IN  [speaker |-> Strip(Lower(MarkerName(s, p))),
         text |-> Strip(SubSeq(s, MarkerEnd(s, p), stop))]

MarkedTurns(s) ==
    LET HasText(turn) == turn.text # <<>>
    IN  SelectSeq([k \in 1..Cardinality(MarkerStarts(s)) |-> Turn(s, k)], HasText)

\* C21: for a script with **Speaker:** markers parse_conversational_script
\* returns one (speaker, text) pair per marker with non-empty text, in script
\* order, name lower-cased and trimmed, text trimmed, whatever characters
\* the text holds.
C21_OnePairPerMarker ==
    (ParseCalled /\ MarkerStarts(call.text) # {}) => output = MarkedTurns(call.text)

\* The fallback (heuristic alternation) mode of the parser has answered
Alternated == ParseCalled /\ Unmarked(call.text)

\* The segments the alternation loop built, before the merge of too many
LoopSegments(script_text, speaker_pair) ==
    LET segments == SplitScript(script_text)
        pair_speakers == PairSpeakers(speaker_pair)
    IN  Alternate(segments, 1, SegmentsPerChunk(segments), pair_speakers,
                  pair_speakers[1], <<>>, <<>>)

Merged == Alternated /\ Len(LoopSegments(call.text, call.speaker)) > MaxSpeakerSegments

\* C22: in fallback mode the k-th returned segment (from 0) has speaker
\* roster[k mod len(roster)], and consecutive returned segments have different
\* speakers, also after the merge of too many segments.
C22_SpeakersAlternate ==
    Alternated =>
        LET roster == PairSpeakers(call.speaker)
        IN  /\ \A k \in DOMAIN output :
                   output[k].speaker = roster[((k - 1) % Len(roster)) + 1]
            /\ \A k \in 1..(Len(output) - 1) :
                   output[k].speaker # output[k + 1].speaker

\* What C22 says holds whenever no merge took place
C22_AlternateUnlessMerged == (Alternated /\ ~Merged) => C22_SpeakersAlternate

\* C23: the fallback mode never returns more than 8 segments, however many
\* paragraphs or sentences the script has.
C23_AtMostEightSegments == Alternated => Len(output) <= 8

\* A script of more than 12 pieces, chunked and then merged
C23_Witness ==
    /\ Merged
    /\ Len(SplitScript(call.text)) > 2 * target_segments
    /\ Len(output) <= 8

\* The alphas computed on the last frame for the segments of one speaker
AlphasOf(speaker) ==
    {render.alphas[i] : i \in {j \in DOMAIN timeline : timeline[j].speaker = speaker}}

\* The last frame was composited without a failure of _overlay_image
Composited == FrameDone /\ render.overlays # {}

\* C24: at every frame time the overlay of a segment's speaker is composited
\* with the alpha computed for that time: whenever a segment's alpha is
\* positive (inside the segment, or in the windows of T/2 before its start
\* and after its end) its speaker's image is drawn, with that opacity.
C24_OverlayCrossFaded ==
    (FrameDone /\ render.failures = {})
        => \A i \in DOMAIN timeline :
              (render.alphas[i] > 0 /\ timeline[i].speaker \in OverlaySpeakers)
                  => \E overlay \in render.overlays :
                        /\ overlay.speaker = timeline[i].speaker
                        /\ overlay.opacity \in AlphasOf(timeline[i].speaker)

\* What the code does instead: only the speaker of the segment holding the
\* frame time is drawn, at full opacity
C24_CurrentSpeakerOpaque ==
    Composited =>
        /\ render.overlays = {[speaker |-> render.current_speaker, opacity |-> AlphaDen]}
        /\ \E i \in DOMAIN timeline :
              /\ SegStart(i) <= FrameTime /\ FrameTime <= SegEnd(i)
              /\ timeline[i].speaker = render.current_speaker

\* The frame indices 0 .. n-1 in order
FirstFrames(n) == [k \in 1..n |-> k - 1]

LoopDone == Len(render.frames) = render.total_frames

\* The video writer has received the frames 0, 1, ... in order, each once,
\* never more than total_frames, and the loop is left only with all of them
FramesInOrder ==
    Rendering =>
        /\ render.frames = FirstFrames(render.frames_written)
        /\ render.frames_written <= render.total_frames
        /\ render.stage # "frames" => LoopDone

\* C25: a render that passed its up-front checks writes exactly total_frames
\* frames, frame k being the one computed for time k / fps, in strictly
\* increasing order and each once; the loop terminates, and a failed
\* background read, overlay or caption render on a frame does not stop it.
C25_AllFramesWritten ==
    /\ []FramesInOrder
    /\ (render.stage = "frames") ~> LoopDone

\* A render that returned although background, overlay and caption of its
\* last frame had all failed
C25_Witness ==
    /\ render.stage = "returned"
    /\ render.total_frames > 1
    /\ render.frames = FirstFrames(render.total_frames)
    /\ render.failures = {"background", "overlay", "caption"}

\* C26: every caption chunk of an enhanced timeline has start <= end (so
\* get_current_caption selects it at some time), and the last chunk of a
\* segment, whose end is the segment's end_time, does not start after it.
C26_ChunkStartBeforeEnd ==
    Enhanced =>
        \A i \in DOMAIN results[1].segments :
            LET seg == results[1].segments[i]
                chunks == seg.caption_chunks
            IN  /\ \A k \in DOMAIN chunks : chunks[k].start <= chunks[k].end
                /\ chunks # <<>> => Last(chunks).start <= seg.end_time

\* What C26 says holds for every segment whose word timings are inside it
C26_HoldsWhenWordsInside ==
    Enhanced =>
        \A i \in DOMAIN results[1].segments :
            LET seg == results[1].segments[i]
                chunks == seg.caption_chunks
            IN  (\A k \in DOMAIN seg.word_timings :
                    /\ seg.start_time <= seg.word_timings[k].start
                    /\ seg.word_timings[k].start <= seg.word_timings[k].end
                    /\ seg.word_timings[k].end <= seg.end_time)
                => /\ \A k \in DOMAIN chunks : chunks[k].start <= chunks[k].end
                   /\ chunks # <<>> => Last(chunks).start <= seg.end_time

\* No chunk is empty, and the words of the chunk texts, in order, are the
\* words of the word timings
Partitions(chunks, word_timings) ==
    /\ \A k \in DOMAIN chunks : WordCount(chunks[k].text) > 0
    /\ Concat([k \in DOMAIN chunks |-> Words(chunks[k].text)]) = WordsOf(word_timings)

\* C27: the chunks of a segment partition its word timings: no chunk is
\* empty, and the words of the chunk texts in order are exactly the words of
\* the word timings, each in one chunk.
C27_ChunksPartitionWords ==
    /\ ChunksCalled => Partitions(output, call.word_timings)
    /\ Enhanced =>
          \A i \in DOMAIN results[1].segments :
              Partitions(results[1].segments[i].caption_chunks,
                         results[1].segments[i].word_timings)

\* As many chunks as words, each word having closed the chunk before it
C27_Witness ==
    /\ ChunksCalled
    /\ Len(call.word_timings) = MaxChunkWords
    /\ Len(output) = MaxChunkWords

Status(job_id) == async_processor.jobs[job_id].status

Created(job_id) == job_id \in DOMAIN async_processor.jobs

Finished(job_id) == Created(job_id) /\ Status(job_id) \in {"completed", "failed"}

\* C28: every job created by create_job eventually leaves 'pending' and
\* reaches 'completed' or 'failed', the processing functions terminating;
\* also a job created while max_concurrent_jobs jobs are processing.
C28_EveryJobFinishes ==
    \A job_id \in JobIds :
        Created(job_id) ~> Finished(job_id)

\* What the code does with a job created at the limit: its call returns
\* without a thread, and it stays pending whatever happens later
C28_QueuedStaysPending ==
    \A job_id \in JobIds :
        (Created(job_id) /\ async_processor.calls[job_id] = "queued")
            => (Status(job_id) = "pending" /\ async_processor.threads[job_id] = "none")

\* A job that was given a thread does finish
C28_StartedJobFinishes ==
    \A job_id \in JobIds :
        (Created(job_id) /\ async_processor.calls[job_id] = "returned")
            ~> Finished(job_id)

\* C29: never more than max_concurrent_jobs jobs are registered in
\* processing_threads or have status 'processing', under any interleaving of
\* concurrent create_job calls and completions.
C29_ConcurrencyLimit ==
    /\ Cardinality(async_processor.processing_threads) <= max_concurrent_jobs
    /\ Cardinality({job_id \in DOMAIN async_processor.jobs :
                        Status(job_id) = "processing"}) <= max_concurrent_jobs

\* The parsed segments whose synthesis call succeeded
Synthesized == {i \in DOMAIN synthesis : synthesis[i].success}

\* C30: for every segment whose synthesis succeeded and returned alignment
\* data, the timing entry generate_conversational_voiceover hands to the
\* timeline builder carries that alignment, so that the segment is timed in
\* precise mode.
C30_AlignmentHandedOn ==
    (pc \in {"voiced", "timeline"} /\ synthesis # <<>>) =>
        /\ Len(request.timing_data) = Cardinality(Synthesized)
        /\ \A k \in DOMAIN request.timing_data :
              LET alignment == synthesis[Nth(Synthesized, k)].timing_data
              IN  ~alignment.isNone => request.timing_data[k].timing_data = alignment

\* What the code hands on instead: no entry carries alignment data
C30_AlignmentDropped ==
    (pc \in {"voiced", "timeline"} /\ synthesis # <<>>) =>
        \A k \in DOMAIN request.timing_data : request.timing_data[k].timing_data.isNone

====
